---- MODULE Spec2Model ----
(***************************************************************************)
(* DelayBot (src/DelayBot.py): a chat bot that validates a time expression *)
(* (block "1D24H60M60S", 24hr clock "23:59:59", 12hr clock "12:59AM") and  *)
(* replies with a verdict.  Strings are sequences of one-character         *)
(* strings; the bot object's tables are state variables.                   *)
(***************************************************************************)
EXTENDS Integers, Sequences, FiniteSets, TLC

VARIABLES
    clockLimits,   \* self.clockLimits: list [hours, minutes, seconds]
    blockLimits,   \* self.blockLimits: dict unit -> limit
    meridiems,     \* self.meridiems: set of suffix strings
    pc,            \* position of the (single threaded) caller
    arg,           \* token the last get_time call was given
    ret,           \* what the call returned: "True", "False" or the exception raised
    out,           \* diagnostic the call printed ("" when none)
    format,        \* branch the call took: "block", "clock", "none"
    inbound,       \* message respond was called with (NoMsg when none)
    sent,          \* message handed to client.send_message (NoMsg when none)
    cpc,           \* concurrent calls: position of each call
    ctoken,        \* concurrent calls: the token the call was given
    carg,          \* concurrent calls: local arg (token, then list of segments)
    cending,       \* concurrent calls: local ending
    cx,            \* concurrent calls: loop index x (0-based, as in the code)
    cret           \* concurrent calls: returned value

vars == <<clockLimits, blockLimits, meridiems, pc, arg, ret, out, format,
          inbound, sent, cpc, ctoken, carg, cending, cx, cret>>

botVars == <<clockLimits, blockLimits, meridiems>>
seqVars == <<pc, arg, ret, out, format, inbound, sent>>
concVars == <<cpc, ctoken, carg, cending, cx, cret>>

----------------------------------------------------------------------------
(* Characters and the string primitives the code uses.                     *)

AsciiDigits == {"0", "1", "2", "3", "4", "5", "6", "7", "8", "9"}

\* U+00B2 SUPERSCRIPT TWO: unicode.isdigit() is true of it, int() rejects it.
SuperscriptTwo == "u00B2"

NewLine == "\n"

UpperOf ==
    [a |-> "A", b |-> "B", c |-> "C", d |-> "D", e |-> "E", f |-> "F", g |-> "G",
     h |-> "H", i |-> "I", j |-> "J", k |-> "K", l |-> "L", m |-> "M", n |-> "N",
     o |-> "O", p |-> "P", q |-> "Q", r |-> "R", s |-> "S", t |-> "T", u |-> "U",
     v |-> "V", w |-> "W", x |-> "X", y |-> "Y", z |-> "Z"]

LowerOf ==
    [A |-> "a", B |-> "b", C |-> "c", D |-> "d", E |-> "e", F |-> "f", G |-> "g",
     H |-> "h", I |-> "i", J |-> "j", K |-> "k", L |-> "l", M |-> "m", N |-> "n",
     O |-> "o", P |-> "p", Q |-> "q", R |-> "r", S |-> "s", T |-> "t", U |-> "u",
     V |-> "v", W |-> "w", X |-> "x", Y |-> "y", Z |-> "z"]

\* str.upper()
UpperChar(c) == IF c \in DOMAIN UpperOf THEN UpperOf[c] ELSE c

upper(s) == SubSeq([i \in 1..Len(s) |-> UpperChar(s[i])], 1, Len(s))

\* str.lower()
LowerChar(c) == IF c \in DOMAIN LowerOf THEN LowerOf[c] ELSE c

lower(s) == SubSeq([i \in 1..Len(s) |-> LowerChar(s[i])], 1, Len(s))

\* unicode.isdigit(): non-empty and every character has the Digit property
isdigit(s) == Len(s) > 0 /\ \A i \in 1..Len(s) : s[i] \in AsciiDigits \cup {SuperscriptTwo}

\* int(s) raises ValueError unless s is a non-empty run of decimal digits
IntRaises(s) == Len(s) = 0 \/ \E i \in 1..Len(s) : s[i] \notin AsciiDigits

DigitChars == <<"0", "1", "2", "3", "4", "5", "6", "7", "8", "9">>

DigitValue(c) == (CHOOSE i \in 1..10 : DigitChars[i] = c) - 1

RECURSIVE IntOf(_)
\* int(s) for a run of decimal digits
IntOf(s) == IF Len(s) = 0 THEN 0
            ELSE 10 * IntOf(SubSeq(s, 1, Len(s) - 1)) + DigitValue(s[Len(s)])

\* s[2:]
From2(s) == IF Len(s) > 2 THEN SubSeq(s, 3, Len(s)) ELSE <<>>

\* s[:2]
First2(s) == IF Len(s) > 2 THEN SubSeq(s, 1, 2) ELSE s

RECURSIVE SplitFrom(_, _, _, _)
SplitFrom(s, sep, i, cur) ==
    IF i > Len(s) THEN <<cur>>
    ELSE IF s[i] = sep THEN <<cur>> \o SplitFrom(s, sep, i + 1, <<>>)
    ELSE SplitFrom(s, sep, i + 1, Append(cur, s[i]))

\* str.split(sep) for a one-character separator
split(s, sep) == SplitFrom(s, sep, 1, <<>>)

----------------------------------------------------------------------------
(* The block regular expressions of __init__.                              *)

UnitLetters == {"H", "M", "D", "S"}

\* the {1,4} of blockRegexpMatch
MaxRepeat == 4

\* regexp "[0-9]{1,2}[HMDS]{1}" matches s[i .. i+n] with n digits
GroupAt(s, i, n) ==
    /\ i + n <= Len(s)
    /\ \A j \in i..(i + n - 1) : s[j] \in AsciiDigits
    /\ s[i + n] \in UnitLetters

GroupEnds(s, i) == {i + n + 1 : n \in {n \in {1, 2} : GroupAt(s, i, n)}}

RECURSIVE PosAfter(_, _)
\* positions the matcher can be at after exactly k groups from the start (^)
PosAfter(s, k) == IF k = 0 THEN {1}
                  ELSE UNION {GroupEnds(s, i) : i \in PosAfter(s, k - 1)}

\* "$" without re.MULTILINE: the end of the string, or just before a final newline
DollarAt(s, pos) == pos = Len(s) + 1 \/ (pos = Len(s) /\ s[pos] = NewLine)

\* self.blockRegexpMatch.match(s) is not None
blockRegexpMatch(s) == \E k \in 1..MaxRepeat : \E pos \in PosAfter(s, k) : DollarAt(s, pos)

RECURSIVE FindAllFrom(_, _)
FindAllFrom(s, i) ==
    IF i > Len(s) THEN <<>>
    ELSE IF GroupAt(s, i, 2) THEN <<SubSeq(s, i, i + 2)>> \o FindAllFrom(s, i + 3)
    ELSE IF GroupAt(s, i, 1) THEN <<SubSeq(s, i, i + 1)>> \o FindAllFrom(s, i + 2)
    ELSE FindAllFrom(s, i + 1)

\* self.blockRegexpFind.findall(s)
blockRegexpFind(s) == FindAllFrom(s, 1)

----------------------------------------------------------------------------
(* The tables set up by __init__.                                          *)

\* variant: the hour limit of the block format written as 23
InitBlockLimitsHour23 == [D |-> 1, H |-> 23, M |-> 60, S |-> 60]

InitBlockLimits == [D |-> 1, H |-> 24, M |-> 60, S |-> 60]

\* variant: the dotted meridiems left out
InitMeridiemsNoDots == {<<"A", "M">>, <<"P", "M">>, <<>>}

InitMeridiems ==
    {<<"A", "M">>, <<"P", "M">>, <<"A", ".", "M", ".">>, <<"P", ".", "M", ".">>, <<>>}

InitClockLimits == <<23, 59, 59>>

\* the hour limit get_time stores for a 12hr clock
MeridiemHourLimit == 12

\* key_word = "DelayBot", lowered by __init__
key_word == lower(<<"D", "e", "l", "a", "y", "B", "o", "t">>)

----------------------------------------------------------------------------
(* get_time, as a function of the token and of the bot's tables.           *)

RECURSIVE BlockLoopMagnitudeFirst(_, _, _, _)
\* variant: the magnitude check moved before the duplicate check
BlockLoopMagnitudeFirst(values, i, tally, bl) ==
    IF i > Len(values) THEN [ret |-> "True", out |-> ""]
    ELSE LET value == values[i]
             char == value[Len(value)]
         IN  IF IntOf(SubSeq(value, 1, Len(value) - 1)) > bl[char]
             THEN [ret |-> "False", out |-> "Value is too high!"]
             ELSE IF \E j \in 1..Len(tally) : tally[j] = char
             THEN [ret |-> "False", out |-> "You defined a time twice!"]
             ELSE BlockLoopMagnitudeFirst(values, i + 1, Append(tally, char), bl)

RECURSIVE BlockLoop(_, _, _, _)
\* for value in arg (block format); tally is the list of units seen
BlockLoop(values, i, tally, bl) ==
    IF i > Len(values) THEN [ret |-> "True", out |-> ""]
    ELSE LET value == values[i]
             char == value[Len(value)]
         IN  IF \E j \in 1..Len(tally) : tally[j] = char
             THEN [ret |-> "False", out |-> "You defined a time twice!"]
             ELSE IF IntRaises(SubSeq(value, 1, Len(value) - 1))
             THEN [ret |-> "ValueError", out |-> ""]
             ELSE IF char \notin DOMAIN bl
             THEN [ret |-> "KeyError", out |-> ""]
             ELSE IF IntOf(SubSeq(value, 1, Len(value) - 1)) > bl[char]
             THEN [ret |-> "False", out |-> "Value is too high!"]
             ELSE BlockLoop(values, i + 1, Append(tally, char), bl)

\* one iteration of "for x, value in enumerate(arg)" (clock format), x 0-based:
\* "next" when the iteration falls through to the next one
ClockCheck(segs, x, cl) ==
    LET value == segs[x + 1]
    IN  IF ~isdigit(value) THEN [ret |-> "False", out |-> "Non-numeric value!"]
        ELSE IF IntRaises(value) THEN [ret |-> "ValueError", out |-> ""]
        ELSE IF x + 1 > Len(cl) THEN [ret |-> "IndexError", out |-> ""]
        ELSE IF IntOf(value) > cl[x + 1] THEN [ret |-> "False", out |-> "Value too high"]
        ELSE [ret |-> "next", out |-> ""]

RECURSIVE ClockLoop(_, _, _)
ClockLoop(segs, x, cl) ==
    IF x >= Len(segs) THEN [ret |-> "True", out |-> ""]
    ELSE LET r == ClockCheck(segs, x, cl)
         IN  IF r.ret = "next" THEN ClockLoop(segs, x + 1, cl) ELSE r

\* variant: the mode is set back to 24hr when there is no ending
SetClockModeBothWays(cl, ending) ==
    IF ending # <<>> THEN [cl EXCEPT ![1] = MeridiemHourLimit] ELSE [cl EXCEPT ![1] = 23]

\* if ending != "": self.clockLimits[0] = 12
SetClockMode(cl, ending) ==
    IF ending # <<>> THEN [cl EXCEPT ![1] = MeridiemHourLimit] ELSE cl

\* the format get_time picks for the uppercased token
Classify(argU) ==
    IF blockRegexpMatch(argU) THEN "block"
    ELSE IF \E i \in 1..Len(argU) : argU[i] = ":" THEN "clock"
    ELSE "none"

\* ending = arg[-1][2:] after arg = arg.split(":")
EndingOf(segs) == From2(segs[Len(segs)])

\* arg[-1] = arg[-1][:2]
StripLast(segs) == [segs EXCEPT ![Len(segs)] = First2(segs[Len(segs)])]

\* the clock branch of get_time
ClockBranch(argU, mer, cl) ==
    LET segs == split(argU, ":")
        ending == EndingOf(segs)
    IN  IF ending \notin mer
        THEN [ret |-> "False", out |-> "is not a merdiem", clockLimits |-> cl]
        ELSE LET cl2 == SetClockMode(cl, ending)
                 segs2 == StripLast(segs)
             IN  IF Len(segs2) \notin {2, 3}
                 THEN [ret |-> "False", out |-> "Missing Values!", clockLimits |-> cl2]
                 ELSE LET r == ClockLoop(segs2, 0, cl2)
                      IN  [ret |-> r.ret, out |-> r.out, clockLimits |-> cl2]

\* get_time(a): what it returns (or raises), what it prints, the branch it takes
\* and the clockLimits it leaves behind
get_time(a, bl, mer, cl) ==
    LET argU == upper(a)
        fmt == Classify(argU)
    IN  IF fmt = "block"
        THEN LET r == BlockLoop(blockRegexpFind(argU), 1, <<>>, bl)
             IN  [ret |-> r.ret, out |-> r.out, format |-> fmt, clockLimits |-> cl]
        ELSE IF fmt = "clock"
        THEN LET r == ClockBranch(argU, mer, cl)
             IN  [ret |-> r.ret, out |-> r.out, format |-> fmt, clockLimits |-> r.clockLimits]
        ELSE [ret |-> "False", out |-> "not a valid format!", format |-> fmt,
              clockLimits |-> cl]

----------------------------------------------------------------------------
(* respond, parse_command and send_message.                                *)

NoMsg == [type |-> "none"]

Crash == <<"c", "r", "a", "s", "h">>

ProperText ==
    <<" ", "i", "s", " ", "a", " ", "p", "r", "o", "p", "e", "r", " ",
      "t", "i", "m", "e", " ", "s", "i", "g", "n", "a", "t", "u", "r", "e">>

NotProperText ==
    <<" ", "i", "s", " ", "n", "o", "t", " ", "p", "r", "o", "p", "e", "r",
      "!", "!", "!", "!", " ", "n", "o", "p", "e">>

\* parse_command(command): the reply text, or the exception get_time raised
parse_command(command, bl, mer, cl) ==
    LET g == get_time(command[1], bl, mer, cl)
    IN  IF g.ret = "True"
        THEN [raised |-> "", output |-> command[1] \o ProperText, time |-> g]
        ELSE IF g.ret = "False"
        THEN [raised |-> "", output |-> command[1] \o NotProperText, time |-> g]
        ELSE [raised |-> g.ret, output |-> <<>>, time |-> g]

\* send_message(msg): what client.send_message is given
send_message(msg) ==
    [type |-> "stream", subject |-> msg.subject, to |-> msg.display_recipient,
     content |-> msg.content]

\* content = msg["content"].lower().split(" ")
ContentOf(msg) == split(lower(msg.content), " ")

\* respond(msg), given its local content: the exception it raises ("" when
\* none), the message it sends (NoMsg when none) and the get_time call it made
\* (called = FALSE when none)
respond(msg, content, bl, mer, cl) ==
    LET quiet == [raised |-> "", sent |-> NoMsg, called |-> FALSE]
    IN  IF content[1] # key_word THEN quiet
        ELSE IF Len(content) < 2 THEN [quiet EXCEPT !.raised = "IndexError"]
        ELSE IF content[2] = Crash THEN [quiet EXCEPT !.raised = "ZeroDivisionError"]
        ELSE LET r == parse_command(SubSeq(content, 2, Len(content)), bl, mer, cl)
             IN  IF r.raised # ""
                 THEN [raised |-> r.raised, sent |-> NoMsg, called |-> TRUE,
                       command |-> content[2], time |-> r.time]
                 ELSE [raised |-> "", called |-> TRUE, command |-> content[2],
                       time |-> r.time,
                       sent |-> send_message([msg EXCEPT !.content = r.output])]

----------------------------------------------------------------------------
(* The tokens and messages the bot is driven with.                         *)

\* longest token made of arbitrary characters
MaxLen == 3

\* most <digits><unit> groups a generated block token has
MaxGroups == 4

ArbChars == {"1", ":", "D", "d", "x", NewLine, SuperscriptTwo}

RECURSIVE StringsOver(_, _)
\* the strings of exactly n characters of C
StringsOver(C, n) ==
    IF n = 0 THEN {<<>>} ELSE {<<c>> \o s : c \in C, s \in StringsOver(C, n - 1)}

ArbTokens == UNION {StringsOver(ArbChars, n) : n \in 0..MaxLen}

BlockGroups ==
    {<<"1", "D">>, <<"2", "D">>, <<"2", "4", "H">>, <<"2", "5", "H">>,
     <<"6", "0", "M">>, <<"5", "S">>}

RECURSIVE GroupStrings(_)
\* the concatenations of exactly n groups
GroupStrings(n) ==
    IF n = 0 THEN {<<>>} ELSE {g \o s : g \in BlockGroups, s \in GroupStrings(n - 1)}

BlockTokens == UNION {GroupStrings(n) : n \in 1..MaxGroups}

HourFields == {<<"0", "0">>, <<"1", "2">>, <<"1", "3">>, <<"2", "3">>, <<"2", "4">>}

MinuteFields == {<<"0", "0">>, <<"5", "9">>, <<"6", "0">>}

Suffixes ==
    {<<>>, <<"A", "M">>, <<"P", "M">>, <<"A", ".", "M", ".">>, <<"P", ".", "M", ".">>,
     <<"a", "m">>, <<"p", ".", "M", ".">>, <<"X", "M">>}

ShortClockTokens ==
    {h \o <<":">> \o m \o x : h \in HourFields, m \in MinuteFields, x \in Suffixes}

ClockTokens ==
    ShortClockTokens
    \cup
    {h \o <<":">> \o m \o <<":">> \o s \o x :
        h \in HourFields, m \in MinuteFields, s \in MinuteFields, x \in Suffixes}

Tokens == ArbTokens \cup BlockTokens \cup ClockTokens

\* the tokens inbound messages carry
MsgTokens ==
    StringsOver(ArbChars, 0) \cup StringsOver(ArbChars, 1) \cup StringsOver(ArbChars, 2)
    \cup ShortClockTokens \cup GroupStrings(1) \cup GroupStrings(2)

FirstWords ==
    {<<"D", "e", "l", "a", "y", "B", "o", "t">>,
     <<"d", "e", "l", "a", "y", "b", "o", "t">>,
     <<"H", "e", "l", "l", "o">>}

Contents ==
    {w \o <<" ">> \o t : w \in FirstWords, t \in MsgTokens}
    \cup {w \o <<" ">> \o t \o <<" ", "p", "l", "s">> : w \in FirstWords, t \in GroupStrings(1)}
    \cup {w \o <<" ">> \o Crash : w \in FirstWords}
    \cup FirstWords

Threads ==
    {[subject |-> "lunch", display_recipient |-> "test-bot"],
     [subject |-> "standup", display_recipient |-> "455 Broadway"]}

Messages ==
    {[content |-> c, subject |-> th.subject, display_recipient |-> th.display_recipient] :
        c \in Contents, th \in Threads}

\* the calls that run concurrently, and the tokens they are given
Procs == {"a", "b"}

ConcTokens ==
    {<<"2", "3", ":", "5", "9">>, <<"1", "2", ":", "5", "9", "P", "M">>,
     <<"1", "3", ":", "0", "0", ":", "5", "9">>, <<"0", "0", ":", "6", "0">>,
     <<"1", "3", ":", "0", "0", "a", "m">>, <<"1", "D">>, <<"2", "D">>,
     <<"1", SuperscriptTwo, ":", "0", "0">>, <<"h", "i">>}

----------------------------------------------------------------------------
(* The bot after __init__, and its operations.                             *)

Init ==
    /\ clockLimits = InitClockLimits
    /\ blockLimits = InitBlockLimits
    /\ meridiems = InitMeridiems
    /\ pc = "idle"
    /\ arg = <<>>
    /\ ret = ""
    /\ out = ""
    /\ format = ""
    /\ inbound = NoMsg
    /\ sent = NoMsg
    /\ cpc = [p \in Procs |-> "idle"]
    /\ ctoken = [p \in Procs |-> <<>>]
    /\ carg = [p \in Procs |-> <<>>]
    /\ cending = [p \in Procs |-> <<>>]
    /\ cx = [p \in Procs |-> 0]
    /\ cret = [p \in Procs |-> ""]

\* a direct call get_time(t), start to finish
GetTime ==
    /\ pc = "idle"
    /\ \E t \in Tokens :
          \E g \in {get_time(t, blockLimits, meridiems, clockLimits)} :
              /\ arg' = t
              /\ ret' = g.ret
              /\ out' = g.out
              /\ format' = g.format
              /\ clockLimits' = g.clockLimits
    /\ pc' = "returned"
    /\ UNCHANGED <<blockLimits, meridiems, inbound, sent>>
    /\ UNCHANGED concVars

\* respond(msg), start to finish: parse_command, get_time and send_message included
Respond ==
    /\ pc = "idle"
    /\ \E msg \in Messages : \E content \in {ContentOf(msg)} :
          \E r \in {respond(msg, content, blockLimits, meridiems, clockLimits)} :
              /\ inbound' = msg
              /\ sent' = r.sent
              /\ pc' = IF r.raised # "" THEN "crashed" ELSE "responded"
              /\ IF r.called
                 THEN /\ arg' = r.command
                      /\ ret' = r.time.ret
                      /\ out' = r.time.out
                      /\ format' = r.time.format
                      /\ clockLimits' = r.time.clockLimits
                 ELSE /\ arg' = <<>>
                      /\ ret' = r.raised
                      /\ out' = ""
                      /\ format' = ""
                      /\ clockLimits' = clockLimits
    /\ UNCHANGED <<blockLimits, meridiems>>
    /\ UNCHANGED concVars

\* the caller is done with the result: main's loop waits for the next message.
\* An exception out of respond ends call_on_each_message: "crashed" is final.
Finish ==
    /\ pc \in {"returned", "responded"}
    /\ pc' = "idle"
    /\ arg' = <<>>
    /\ ret' = ""
    /\ out' = ""
    /\ format' = ""
    /\ inbound' = NoMsg
    /\ sent' = NoMsg
    /\ UNCHANGED botVars
    /\ UNCHANGED concVars

Next ==
    \/ GetTime
    \/ Respond
    \/ Finish

Spec == Init /\ [][Next]_vars

----------------------------------------------------------------------------
(* get_time statement by statement, for calls whose steps interleave.      *)

\* a call get_time(t) starts
CCall(p, t) ==
    /\ cpc[p] = "idle"
    /\ cpc' = [cpc EXCEPT ![p] = "classify"]
    /\ ctoken' = [ctoken EXCEPT ![p] = t]
    /\ carg' = [carg EXCEPT ![p] = t]
    /\ UNCHANGED <<cending, cx, cret>>
    /\ UNCHANGED botVars
    /\ UNCHANGED seqVars

\* lines 101-140: the format, the whole block branch, the split and the ending
CClassify(p) ==
    /\ cpc[p] = "classify"
    /\ LET argU == upper(carg[p])
           fmt == Classify(argU)
           segs == split(argU, ":")
       IN  IF fmt = "block"
           THEN /\ cret' = [cret EXCEPT ![p] =
                        BlockLoop(blockRegexpFind(argU), 1, <<>>, blockLimits).ret]
                /\ carg' = [carg EXCEPT ![p] = blockRegexpFind(argU)]
                /\ cpc' = [cpc EXCEPT ![p] = "done"]
                /\ UNCHANGED cending
           ELSE IF fmt = "none"
           THEN /\ cret' = [cret EXCEPT ![p] = "False"]
                /\ carg' = [carg EXCEPT ![p] = argU]
                /\ cpc' = [cpc EXCEPT ![p] = "done"]
                /\ UNCHANGED cending
           ELSE /\ carg' = [carg EXCEPT ![p] = segs]
                /\ cending' = [cending EXCEPT ![p] = EndingOf(segs)]
                /\ IF EndingOf(segs) \notin meridiems
                   THEN /\ cret' = [cret EXCEPT ![p] = "False"]
                        /\ cpc' = [cpc EXCEPT ![p] = "done"]
                   ELSE /\ cpc' = [cpc EXCEPT ![p] = "mode"]
                        /\ UNCHANGED cret
    /\ UNCHANGED cx
    /\ UNCHANGED <<ctoken>>
    /\ UNCHANGED botVars
    /\ UNCHANGED seqVars

\* lines 143-152: the write of clockLimits[0], the strip, the field count
CSetMode(p) ==
    /\ cpc[p] = "mode"
    /\ clockLimits' = SetClockMode(clockLimits, cending[p])
    /\ carg' = [carg EXCEPT ![p] = StripLast(carg[p])]
    /\ IF Len(carg[p]) \notin {2, 3}
       THEN /\ cret' = [cret EXCEPT ![p] = "False"]
            /\ cpc' = [cpc EXCEPT ![p] = "done"]
       ELSE /\ cpc' = [cpc EXCEPT ![p] = "loop"]
            /\ UNCHANGED cret
    /\ cx' = [cx EXCEPT ![p] = 0]
    /\ UNCHANGED <<ctoken, cending, blockLimits, meridiems>>
    /\ UNCHANGED seqVars

\* lines 154-163: one iteration of the loop, reading clockLimits[x]
CLoop(p) ==
    /\ cpc[p] = "loop"
    /\ IF cx[p] >= Len(carg[p])
       THEN /\ cret' = [cret EXCEPT ![p] = "True"]
            /\ cpc' = [cpc EXCEPT ![p] = "done"]
            /\ UNCHANGED cx
       ELSE LET r == ClockCheck(carg[p], cx[p], clockLimits)
            IN  IF r.ret = "next"
                THEN /\ cx' = [cx EXCEPT ![p] = cx[p] + 1]
                     /\ UNCHANGED <<cret, cpc>>
                ELSE /\ cret' = [cret EXCEPT ![p] = r.ret]
                     /\ cpc' = [cpc EXCEPT ![p] = "done"]
                     /\ UNCHANGED cx
    /\ UNCHANGED <<ctoken, carg, cending>>
    /\ UNCHANGED botVars
    /\ UNCHANGED seqVars

\* the call's result is consumed and its locals are dropped
CReturn(p) ==
    /\ cpc[p] = "done"
    /\ cpc' = [cpc EXCEPT ![p] = "idle"]
    /\ ctoken' = [ctoken EXCEPT ![p] = <<>>]
    /\ carg' = [carg EXCEPT ![p] = <<>>]
    /\ cending' = [cending EXCEPT ![p] = <<>>]
    /\ cx' = [cx EXCEPT ![p] = 0]
    /\ cret' = [cret EXCEPT ![p] = ""]
    /\ UNCHANGED botVars
    /\ UNCHANGED seqVars

NextConc ==
    \/ \E p \in Procs, t \in ConcTokens : CCall(p, t)
    \/ \E p \in Procs : CClassify(p)
    \/ \E p \in Procs : CSetMode(p)
    \/ \E p \in Procs : CLoop(p)
    \/ \E p \in Procs : CReturn(p)

SpecConc == Init /\ [][NextConc]_vars

----------------------------------------------------------------------------
(* Properties.                                                             *)

\* what get_time(t) does on a freshly constructed bot
Fresh(t) == get_time(t, InitBlockLimits, InitMeridiems, InitClockLimits)

\* a get_time call has just finished (directly or inside respond)
Called == pc \in {"returned", "responded", "crashed"} /\ format # ""

\* two decimal digits with a value of at most n
TwoDigitsAtMost(f, n) ==
    Len(f) = 2 /\ f[1] \in AsciiDigits /\ f[2] \in AsciiDigits /\ IntOf(f) <= n

\* HH:MM or HH:MM:SS, hour at most maxHour, minute and second at most 59
ClockShape(t, maxHour) ==
    LET f == split(t, ":")
    IN  /\ Len(f) \in {2, 3}
        /\ TwoDigitsAtMost(f[1], maxHour)
        /\ \A i \in 2..Len(f) : TwoDigitsAtMost(f[i], 59)

\* C1: get_time(t) returns what it returns on a freshly constructed bot,
\* whatever calls came before.
C1_SameVerdictAsFresh == Called => ret = Fresh(arg).ret

\* C2: a clock token HH:MM or HH:MM:SS without suffix, hour <= 23 and
\* minute/second <= 59, is accepted in every reachable state.
C2_Clock24Accepted == (Called /\ ClockShape(arg, 23)) => ret = "True"

\* C3: each of two interleaved get_time calls returns what it returns when run
\* alone on a freshly constructed bot.
C3_ConcurrentCallsIndependent ==
    \A p \in Procs : cpc[p] = "done" => cret[p] = Fresh(ctoken[p]).ret

\* the limits the block format is specified with
StatedBlockLimit(unit) ==
    IF unit = "D" THEN 1 ELSE IF unit = "H" THEN 24 ELSE 60

UnitOf(group) == group[Len(group)]

MagnitudeOf(group) == IntOf(SubSeq(group, 1, Len(group) - 1))

RECURSIVE Concat(_)
Concat(gs) == IF Len(gs) = 0 THEN <<>> ELSE gs[1] \o Concat(Tail(gs))

\* tokens of 1 to 4 in-range groups with pairwise distinct units, in any order
ValidBlockTokens ==
    LET good == {g \in BlockGroups : MagnitudeOf(g) <= StatedBlockLimit(UnitOf(g))}
        lists == UNION {[1..n -> good] : n \in 1..4}
    IN  {Concat(gs) : gs \in {l \in lists :
            \A i, j \in 1..Len(l) : i # j => UnitOf(l[i]) # UnitOf(l[j])}}

\* C4: a block token of 1 to 4 groups with pairwise distinct units and
\* magnitudes D <= 1, H <= 24, M <= 60, S <= 60 is classified as block and
\* accepted, in every reachable state.
C4_ValidBlockAccepted ==
    (Called /\ upper(arg) \in ValidBlockTokens) => (format = "block" /\ ret = "True")

C4_Witness ==
    /\ pc = "returned"
    /\ arg = <<"5", "S", "6", "0", "M", "2", "4", "H", "1", "D">>
    /\ clockLimits[1] = MeridiemHourLimit
    /\ format = "block"
    /\ ret = "True"

\* the fields of a block token, and whether a unit letter repeats
FieldsOf(t) == blockRegexpFind(upper(t))

HasRepeatedUnit(t) ==
    \E i, j \in 1..Len(FieldsOf(t)) : i < j /\ UnitOf(FieldsOf(t)[i]) = UnitOf(FieldsOf(t)[j])

\* index of the first field whose unit already occurred
FirstRepeat(t) ==
    CHOOSE j \in 1..Len(FieldsOf(t)) :
        /\ \E i \in 1..(j - 1) : UnitOf(FieldsOf(t)[i]) = UnitOf(FieldsOf(t)[j])
        /\ \A k \in 1..(j - 1) :
              ~ \E i \in 1..(k - 1) : UnitOf(FieldsOf(t)[i]) = UnitOf(FieldsOf(t)[k])

\* some field before the first repeat is above its limit
TooHighBeforeRepeat(t) ==
    \E i \in 1..(FirstRepeat(t) - 1) :
        MagnitudeOf(FieldsOf(t)[i]) > StatedBlockLimit(UnitOf(FieldsOf(t)[i]))

\* C5 as stated: a block token with a repeated unit letter is rejected with the
\* duplicate-unit diagnostic, whatever its magnitudes.
C5_DuplicateAlwaysReportedAsDuplicate ==
    (Called /\ format = "block" /\ HasRepeatedUnit(arg))
        => (ret = "False" /\ out = "You defined a time twice!")

\* C5 amended: a block token with a repeated unit letter is rejected; the
\* diagnostic is the duplicate-unit one unless a field before the first
\* repeated field is above its limit, and then it is the magnitude one.
C5_DuplicateRejectedFirstErrorReported ==
    (Called /\ format = "block" /\ HasRepeatedUnit(arg))
        => /\ ret = "False"
           /\ out = IF TooHighBeforeRepeat(arg) THEN "Value is too high!"
                    ELSE "You defined a time twice!"

C5_Witness ==
    /\ pc = "returned"
    /\ arg = <<"1", "D", "2", "D">>
    /\ ret = "False"
    /\ out = "You defined a time twice!"

\* the meridiem markers of the 12hr clock
Markers == {<<"A", "M">>, <<"P", "M">>, <<"A", ".", "M", ".">>, <<"P", ".", "M", ".">>}

\* HH:MM or HH:MM:SS, hour <= 12, followed by a marker in any letter case
Clock12Shape(t) ==
    \E x \in Markers :
        /\ Len(t) > Len(x)
        /\ upper(SubSeq(t, Len(t) - Len(x) + 1, Len(t))) = x
        /\ ClockShape(SubSeq(t, 1, Len(t) - Len(x)), 12)

\* C6: a clock token HH:MM or HH:MM:SS followed by AM, PM, A.M. or P.M. in any
\* letter case, hour <= 12 and minute/second <= 59, is accepted with the hour
\* compared against 12, in every reachable state.
C6_Clock12Accepted ==
    (Called /\ Clock12Shape(arg)) => (ret = "True" /\ clockLimits[1] = 12)

C6_Witness ==
    /\ pc = "returned"
    /\ arg = <<"1", "2", ":", "5", "9", ":", "5", "9", "p", ".", "M", ".">>
    /\ ret = "True"
    /\ clockLimits = <<12, 59, 59>>

\* C7: get_time returns True or False for every token; it never raises.
C7_NeverRaises == Called => ret \in {"True", "False"}

\* the whole token is 1 to 4 repetitions of <1-2 digits><unit>
BlockShape(s) == \E k \in 1..4 : (Len(s) + 1) \in PosAfter(s, k)

HasColon(s) == \E i \in 1..Len(s) : s[i] = ":"

\* C8: the block branch is taken iff the whole uppercased token has the block
\* shape, otherwise the clock branch iff it has a colon, otherwise the call
\* returns False at once with no further check.
C8_ClassificationByShape ==
    Called =>
        /\ format \in {"block", "clock", "none"}
        /\ format = "block" <=> BlockShape(upper(arg))
        /\ format = "clock" <=> (~BlockShape(upper(arg)) /\ HasColon(upper(arg)))
        /\ format = "none" => (ret = "False" /\ out = "not a valid format!")

\* the words of the inbound message as the user wrote them
WordsOf(msg) == split(msg.content, " ")

\* C9: a message whose first word is the keyword (in any case) is answered on
\* its own subject and recipient with the second word as written followed by
\* the verdict text; any other message is not answered.  (The "crash" test
\* hook and calls that raise are left out of the statement.)
C9_ReplyEchoesTokenAsWritten ==
    (pc = "responded" /\ ret \in {"True", "False", ""}) =>
        IF lower(WordsOf(inbound)[1]) = key_word /\ Len(WordsOf(inbound)) >= 2
        THEN sent = [type |-> "stream",
                     subject |-> inbound.subject,
                     to |-> inbound.display_recipient,
                     content |-> WordsOf(inbound)[2] \o
                         (IF ret = "True" THEN ProperText ELSE NotProperText)]
        ELSE sent = NoMsg

\* tokens whose verdict is compared before and after each change of the tables
ProbeTokens ==
    ClockTokens \cup GroupStrings(1) \cup StringsOver(ArbChars, 2)

Rejected(t, bl, mer, cl) == get_time(t, bl, mer, cl).ret # "True"

TablesOk ==
    /\ clockLimits \in {<<23, 59, 59>>, <<12, 59, 59>>}
    /\ blockLimits = [D |-> 1, H |-> 24, M |-> 60, S |-> 60]
    /\ meridiems = {<<"A", "M">>, <<"P", "M">>, <<"A", ".", "M", ".">>,
                    <<"P", ".", "M", ".">>, <<>>}

StaysRejected ==
    /\ clockLimits[1] = 12 => clockLimits'[1] = 12
    /\ botVars' # botVars =>
          \A t \in ProbeTokens :
              Rejected(t, blockLimits, meridiems, clockLimits)
                  => Rejected(t, blockLimits', meridiems', clockLimits')

\* C10: clockLimits is [23,59,59] or [12,59,59], blockLimits and meridiems keep
\* their initial values, clockLimits[0] never goes from 12 back to 23, and a
\* token that is rejected in one state is rejected in every later state.
C10_RejectionsStable == []TablesOk /\ [][StaysRejected]_vars

C10_Witness ==
    /\ pc = "returned"
    /\ arg = <<"2", "3", ":", "5", "9">>
    /\ clockLimits = <<12, 59, 59>>
    /\ ret = "False"

====
